---- MODULE Spec2Model ----
(***************************************************************************)
(* OF helpers for network devices: drivers/of/of_net.c.                    *)
(*                                                                         *)
(* of_get_phy_mode, of_get_mac_address with its fallback chain, and the    *)
(* Trio serial-derived MAC generator (trio_generate_mac, return_trio_mac,  *)
(* return_trio_mac_reversed, of_get_trio_mac_addr).                        *)
(*                                                                         *)
(* 64-bit values are tuples of 8 bytes, most significant first, because    *)
(* the 48-bit addresses do not fit the model checker's integers.  Strings  *)
(* are tuples of one-character strings.  Error codes are their errno       *)
(* names; "none" is success.                                               *)
(***************************************************************************)
EXTENDS Integers, Sequences, FiniteSets, TLC

\* ------------------------------------------------------------------ bounds

\* Concurrent callers of of_get_mac_address in SpecConc.
NumCallers == 2
\* Resolution calls started in one run.
MaxCalls == 2
\* Serial numbers sampled on each side of the limits 1 and 229375.
SerialSpan == 2

\* ------------------------------------------------------- program constants

ETH_ALEN == 6
NUM_TRIO_MACS == 2
BASE_MAC_ADDRESS == <<0, 0, \h00, \h1E, \hFB, \hF8, \h00, \h01>>
TRIO_SERIAL_LIMIT == 229375

\* ------------------------------------------------------ 64-bit arithmetic

Pow256(k) == CASE k = 0 -> 1 [] k = 1 -> 256 [] k = 2 -> 65536 [] k = 3 -> 16777216

\* A signed integer (int or long long within the int range) converted to a
\* 64-bit two's-complement value: sign extension.
S64ToU64(n) ==
  LET b(k) == (n \div Pow256(k)) % 256
      s == IF n < 0 THEN 255 ELSE 0
  IN <<s, s, s, s, b(3), b(2), b(1), b(0)>>

\* The u32 cell of a property, as the int the callee receives: same bits.
U32ToInt(c) ==
  (IF c[1] >= 128 THEN c[1] - 256 ELSE c[1]) * 16777216
    + c[2] * 65536 + c[3] * 256 + c[4]

RECURSIVE CarryInto(_, _, _)
CarryInto(a, b, i) ==
  IF i = 8 THEN 0 ELSE (a[i + 1] + b[i + 1] + CarryInto(a, b, i + 1)) \div 256

\* a + b modulo 2^64.
Add64(a, b) ==
  LET d(i) == (a[i] + b[i] + CarryInto(a, b, i)) % 256
  IN <<d(1), d(2), d(3), d(4), d(5), d(6), d(7), d(8)>>

RECURSIVE BitAnd(_, _)
BitAnd(x, y) ==
  IF x = 0 \/ y = 0 THEN 0
  ELSE (x % 2) * (y % 2) + 2 * BitAnd(x \div 2, y \div 2)

RECURSIVE BitOr(_, _)
BitOr(x, y) ==
  IF x = 0 THEN y
  ELSE IF y = 0 THEN x
  ELSE ((x % 2) + (y % 2) + 1) \div 2 + 2 * BitOr(x \div 2, y \div 2)

And64(a, b) ==
  LET d(i) == BitAnd(a[i], b[i])
  IN <<d(1), d(2), d(3), d(4), d(5), d(6), d(7), d(8)>>

Or64(a, b) ==
  LET d(i) == BitOr(a[i], b[i])
  IN <<d(1), d(2), d(3), d(4), d(5), d(6), d(7), d(8)>>

\* v >> n and v << n for n a multiple of 8, as every shift of the file is.
Shr64(v, n) ==
  LET k == n \div 8
      d(i) == IF i - k >= 1 THEN v[i - k] ELSE 0
  IN <<d(1), d(2), d(3), d(4), d(5), d(6), d(7), d(8)>>

Shl64(v, n) ==
  LET k == n \div 8
      d(i) == IF i + k <= 8 THEN v[i + k] ELSE 0
  IN <<d(1), d(2), d(3), d(4), d(5), d(6), d(7), d(8)>>

\* The mask 0xFF << (8 * k).
ByteMask(k) ==
  LET d(i) == IF i = 8 - k THEN 255 ELSE 0
  IN <<d(1), d(2), d(3), d(4), d(5), d(6), d(7), d(8)>>

\* ------------------------------------------------------------ characters

LowerCase == <<"a", "b", "c", "d", "e", "f", "g", "h", "i", "j", "k", "l", "m",
               "n", "o", "p", "q", "r", "s", "t", "u", "v", "w", "x", "y", "z">>
UpperCase == <<"A", "B", "C", "D", "E", "F", "G", "H", "I", "J", "K", "L", "M",
               "N", "O", "P", "Q", "R", "S", "T", "U", "V", "W", "X", "Y", "Z">>
Digits == <<"0", "1", "2", "3", "4", "5", "6", "7", "8", "9">>

tolower(c) ==
  IF \E i \in 1..26 : UpperCase[i] = c
  THEN LowerCase[CHOOSE i \in 1..26 : UpperCase[i] = c]
  ELSE c

\* The value of a digit character; 36 for a character that is no digit.
DigitVal(c) ==
  IF \E i \in 1..10 : Digits[i] = c
  THEN (CHOOSE i \in 1..10 : Digits[i] = c) - 1
  ELSE IF \E i \in 1..6 : LowerCase[i] = tolower(c)
  THEN (CHOOSE i \in 1..6 : LowerCase[i] = tolower(c)) + 9
  ELSE 36

\* ----------------------------------------------------------------- kstrtoll

RECURSIVE parse_integer(_, _, _, _)
parse_integer(s, base, acc, n) ==
  IF s = <<>> \/ DigitVal(Head(s)) >= base
  THEN [val |-> acc, rv |-> n]
  ELSE parse_integer(Tail(s), base, acc * base + DigitVal(Head(s)), n + 1)

\* kstrtoull(s, 0, &res): optional '+', the base from the prefix, at least
\* one digit, an optional final newline and nothing else.
kstrtoull(s0) ==
  LET s == IF s0 # <<>> /\ Head(s0) = "+" THEN Tail(s0) ELSE s0
      base == IF s # <<>> /\ s[1] = "0"
              THEN IF Len(s) >= 3 /\ tolower(s[2]) = "x" /\ DigitVal(s[3]) < 16
                   THEN 16 ELSE 8
              ELSE 10
      body == IF base = 16 THEN SubSeq(s, 3, Len(s)) ELSE s
      p == parse_integer(body, base, 0, 0)
      rest == SubSeq(body, p.rv + 1, Len(body))
      end == IF rest # <<>> /\ Head(rest) = "\n" THEN Tail(rest) ELSE rest
  IN IF p.rv = 0 \/ end # <<>>
     THEN [err |-> "EINVAL", val |-> 0]
     ELSE [err |-> "none", val |-> p.val]

\* kstrtoll(s, 0, &res).  On an error res is not written: the caller's
\* serial_num keeps its initial 0.
kstrtoll(s) ==
  IF s # <<>> /\ Head(s) = "-"
  THEN LET r == kstrtoull(Tail(s))
       IN IF r.err # "none" THEN r ELSE [err |-> "none", val |-> 0 - r.val]
  ELSE kstrtoull(s)

\* ------------------------------------------------------ the Trio generator

\* A mutation: the serial is not scaled by NUM_TRIO_MACS.
trio_generate_mac_unscaled(idx, pserial) ==
  LET k == kstrtoll(pserial.str)
      serial_num == IF k.err # "none" \/ k.val < 1 \/ k.val >= TRIO_SERIAL_LIMIT
                    THEN 0 ELSE k.val
  IN IF pserial.present
     THEN Add64(Add64(BASE_MAC_ADDRESS, S64ToU64(serial_num)), S64ToU64(idx))
     ELSE Add64(BASE_MAC_ADDRESS, S64ToU64(idx))

\* A mutation: the upper limit is tested with > instead of >=.
trio_generate_mac_off_by_one(idx, pserial) ==
  LET k == kstrtoll(pserial.str)
      serial_num == IF k.err # "none" \/ k.val < 1 \/ k.val > TRIO_SERIAL_LIMIT
                    THEN 0 ELSE k.val
  IN IF pserial.present
     THEN Add64(Add64(BASE_MAC_ADDRESS, S64ToU64(serial_num * NUM_TRIO_MACS)),
                S64ToU64(idx))
     ELSE Add64(BASE_MAC_ADDRESS, S64ToU64(idx))

\* trio_generate_mac(idx), reading "serial-number" of the root node.  pserial
\* is the property: absent (pserial stays NULL) or a string.
trio_generate_mac(idx, pserial) ==
  LET k == kstrtoll(pserial.str)
      serial_num == IF k.err # "none" \/ k.val < 1 \/ k.val >= TRIO_SERIAL_LIMIT
                    THEN 0 ELSE k.val
  IN IF pserial.present
     THEN Add64(Add64(BASE_MAC_ADDRESS, S64ToU64(serial_num * NUM_TRIO_MACS)),
                S64ToU64(idx))
     ELSE Add64(BASE_MAC_ADDRESS, S64ToU64(idx))

return_trio_mac(idx, pserial) == trio_generate_mac(idx, pserial)

\* A mutation: the second byte is shifted by 32 instead of 24.
trio_reverse_bytes_bad_shift(forward) ==
  Or64(Or64(Or64(And64(Shr64(forward, 40), ByteMask(0)),
                 And64(Shr64(forward, 32), ByteMask(1))),
            Or64(And64(Shr64(forward, 8), ByteMask(2)),
                 And64(Shl64(forward, 8), ByteMask(3)))),
       Or64(And64(Shl64(forward, 24), ByteMask(4)),
            And64(Shl64(forward, 40), ByteMask(5))))

\* The body of return_trio_mac_reversed: the six shift-and-mask terms.
trio_reverse_bytes(forward) ==
  Or64(Or64(Or64(And64(Shr64(forward, 40), ByteMask(0)),
                 And64(Shr64(forward, 24), ByteMask(1))),
            Or64(And64(Shr64(forward, 8), ByteMask(2)),
                 And64(Shl64(forward, 8), ByteMask(3)))),
       Or64(And64(Shl64(forward, 24), ByteMask(4)),
            And64(Shl64(forward, 40), ByteMask(5))))

return_trio_mac_reversed(idx, pserial) ==
  trio_reverse_bytes(return_trio_mac(idx, pserial))

\* (v >> n) & 0xff stored in a u8.
ByteOf(v, n) == And64(Shr64(v, n), ByteMask(0))[8]

\* A mutation: the bytes are stored least significant first.
trio_mac_bytes_reversed(val) ==
  <<ByteOf(val, 0), ByteOf(val, 8), ByteOf(val, 16),
    ByteOf(val, 24), ByteOf(val, 32), ByteOf(val, 40)>>

\* The six stores trio_mac[0..5] of of_get_trio_mac_addr.
trio_mac_bytes(val) ==
  <<ByteOf(val, 40), ByteOf(val, 32), ByteOf(val, 24),
    ByteOf(val, 16), ByteOf(val, 8), ByteOf(val, 0)>>

\* ------------------------------------------------------------------ state

VARIABLES
  cfgTrio,     \* NUM_TRIO_MACS is defined: the vendor step is compiled in
  props,       \* the node's address properties, name -> [present, value]
  trioIdx,     \* the node's "trio-mac-idx": [present, cell]
  rootSerial,  \* the root node's "serial-number": [present, str]
  devFound,    \* of_find_device_by_node finds a platform device for the node
  refcount,    \* the reference count of that device
  callers,     \* the threads that call of_get_mac_address
  callsLeft,   \* calls not yet started
  pc,          \* each caller's position in of_get_mac_address
  consulted,   \* each caller's steps so far: <<[step, kind]>>
  loc,         \* each caller's ret and nvmem_mac of of_get_mac_addr_nvmem
  result,      \* each caller's return value
  board,       \* SpecGen: two boards, each [serial, idx, done, val, mac]
  rev,         \* SpecRev: [serial, x, r1, r2, stage]
  phy          \* SpecPhy: [mode, conn, done, ret]

resolverVars == <<cfgTrio, props, trioIdx, rootSerial, devFound, refcount,
                  callers, callsLeft, pc, consulted, loc, result>>
vars == <<cfgTrio, props, trioIdx, rootSerial, devFound, refcount,
          callers, callsLeft, pc, consulted, loc, result, board, rev, phy>>

\* ------------------------------------------------------- pointers, errors

NULL == [kind |-> "null", addr |-> <<>>, err |-> "none"]
ERR_PTR(e) == [kind |-> "err", addr |-> <<>>, err |-> e]
Ptr(a) == [kind |-> "addr", addr |-> a, err |-> "none"]

NoProp == [present |-> FALSE, value |-> <<>>]
Prop(v) == [present |-> TRUE, value |-> v]
NoString == [present |-> FALSE, str |-> <<>>]
String(s) == [present |-> TRUE, str |-> s]
NoCell == [present |-> FALSE, cell |-> <<>>]
Cell(c) == [present |-> TRUE, cell |-> c]

\* --------------------------------------------------------- of_get_mac_addr

\* is_valid_ether_addr: not multicast and not all-zero, on the first six bytes.
is_valid_ether_addr(a) ==
  /\ a[1] % 2 = 0
  /\ \E i \in 1..ETH_ALEN : a[i] # 0

\* A mutation: the length of the property is not checked.
of_get_mac_addr_no_length(pp) ==
  IF pp.present /\ Len(pp.value) >= ETH_ALEN /\ is_valid_ether_addr(pp.value)
  THEN Ptr(SubSeq(pp.value, 1, ETH_ALEN))
  ELSE NULL

\* of_get_mac_addr(np, name), pp being of_find_property(np, name, NULL).
of_get_mac_addr(pp) ==
  IF pp.present /\ Len(pp.value) = ETH_ALEN /\ is_valid_ether_addr(pp.value)
  THEN Ptr(pp.value)
  ELSE NULL

\* ------------------------------------------------- of_get_mac_addr_nvmem

\* A mutation: a storage error is reported as -ENODEV.
of_get_mac_addr_nvmem_ret_enodev(pdev, ret, nvmem_mac, mac_ok) ==
  IF ~pdev THEN ERR_PTR("ENODEV")
  ELSE IF ret # "none" THEN ERR_PTR("ENODEV")
  ELSE IF ~mac_ok THEN ERR_PTR("ENOMEM")
  ELSE Ptr(nvmem_mac)

\* What of_get_mac_addr_nvmem returns: pdev is whether a device was found,
\* ret and nvmem_mac what nvmem_get_mac_address gave, mac_ok whether
\* devm_kmemdup returned a copy.
of_get_mac_addr_nvmem_ret(pdev, ret, nvmem_mac, mac_ok) ==
  IF ~pdev THEN ERR_PTR("ENODEV")
  ELSE IF ret # "none" THEN ERR_PTR(ret)
  ELSE IF ~mac_ok THEN ERR_PTR("ENOMEM")
  ELSE Ptr(nvmem_mac)

\* ------------------------------------------------- of_get_trio_mac_addr

\* What of_get_trio_mac_addr returns: idx is "trio-mac-idx" as read by
\* of_property_read_u32 (ret >= 0 when present).
of_get_trio_mac_addr_ret(pdev, idx, pserial, mac_ok) ==
  IF ~pdev THEN ERR_PTR("ENODEV")
  ELSE IF idx.present
  THEN IF ~mac_ok THEN ERR_PTR("ENOMEM")
       ELSE Ptr(trio_mac_bytes(return_trio_mac(U32ToInt(idx.cell), pserial)))
  ELSE NULL

\* ----------------------------------------------------- of_get_mac_address

PropNames == {"mac-address", "local-mac-address", "address", "nvmem-mac-address"}

\* A mutation: "local-mac-address" is tried before "mac-address".
of_get_mac_address_chain_swapped(trio) ==
  IF trio
  THEN <<"local-mac-address", "trio", "mac-address", "address",
         "nvmem-mac-address", "nvmem">>
  ELSE <<"local-mac-address", "mac-address", "address",
         "nvmem-mac-address", "nvmem">>

\* The steps of of_get_mac_address in the order of its statements.
of_get_mac_address_chain(trio) ==
  IF trio
  THEN <<"mac-address", "trio", "local-mac-address", "address",
         "nvmem-mac-address", "nvmem">>
  ELSE <<"mac-address", "local-mac-address", "address",
         "nvmem-mac-address", "nvmem">>

\* The statement that follows step s when s returned NULL.
NextStep(s) ==
  LET chain == of_get_mac_address_chain(cfgTrio)
      i == CHOOSE j \in 1..Len(chain) : chain[j] = s
  IN chain[i + 1]

Attempt(t, step, kind) == Append(consulted[t], [step |-> step, kind |-> kind])
Settle(t, kind) ==
  [consulted[t] EXCEPT ![Len(consulted[t])] = [@ EXCEPT !.kind = kind]]

NoLocals == [ret |-> "none", nvmem_mac |-> <<>>]

\* A caller enters of_get_mac_address.
Call(t) ==
  /\ t \in callers
  /\ pc[t] = "idle"
  /\ callsLeft > 0
  /\ callsLeft' = callsLeft - 1
  /\ pc' = [pc EXCEPT ![t] = of_get_mac_address_chain(cfgTrio)[1]]
  /\ consulted' = [consulted EXCEPT ![t] = <<>>]
  /\ loc' = [loc EXCEPT ![t] = NoLocals]
  /\ result' = [result EXCEPT ![t] = NULL]
  /\ UNCHANGED <<cfgTrio, props, trioIdx, rootSerial, devFound, refcount,
                 callers, board, rev, phy>>

\* addr = of_get_mac_addr(np, name); if (addr) return addr;
PropertyStep(t) ==
  /\ pc[t] \in PropNames
  /\ LET addr == of_get_mac_addr(props[pc[t]])
     IN /\ consulted' = [consulted EXCEPT ![t] = Attempt(t, pc[t], addr.kind)]
        /\ result' = [result EXCEPT ![t] = addr]
        /\ pc' = [pc EXCEPT ![t] =
                    IF addr.kind # "null" THEN "done" ELSE NextStep(pc[t])]
  /\ UNCHANGED <<cfgTrio, props, trioIdx, rootSerial, devFound, refcount,
                 callers, callsLeft, loc, board, rev, phy>>

\* of_get_trio_mac_addr up to its test of pdev: of_find_device_by_node takes
\* a reference on the device it finds.
TrioFind(t) ==
  /\ pc[t] = "trio"
  /\ IF devFound
     THEN /\ refcount' = refcount + 1
          /\ consulted' = [consulted EXCEPT ![t] = Attempt(t, "trio", "pending")]
          /\ pc' = [pc EXCEPT ![t] = "trio:held"]
          /\ UNCHANGED result
     ELSE /\ consulted' = [consulted EXCEPT ![t] = Attempt(t, "trio", "err")]
          /\ result' = [result EXCEPT ![t] =
                          of_get_trio_mac_addr_ret(FALSE, trioIdx, rootSerial, TRUE)]
          /\ pc' = [pc EXCEPT ![t] = "done"]
          /\ UNCHANGED refcount
  /\ UNCHANGED <<cfgTrio, props, trioIdx, rootSerial, devFound, callers,
                 callsLeft, loc, board, rev, phy>>

\* The rest of of_get_trio_mac_addr: put_device is called only in the branch
\* that read "trio-mac-idx"; the final return NULL leaves the reference held.
TrioRead(t) ==
  /\ pc[t] = "trio:held"
  /\ \E mac_ok \in BOOLEAN :
       LET addr == of_get_trio_mac_addr_ret(TRUE, trioIdx, rootSerial, mac_ok)
       IN /\ refcount' = IF trioIdx.present THEN refcount - 1 ELSE refcount
          /\ consulted' = [consulted EXCEPT ![t] = Settle(t, addr.kind)]
          /\ result' = [result EXCEPT ![t] = addr]
          /\ pc' = [pc EXCEPT ![t] =
                      IF addr.kind # "null" THEN "done" ELSE NextStep("trio")]
  /\ UNCHANGED <<cfgTrio, props, trioIdx, rootSerial, devFound, callers,
                 callsLeft, loc, board, rev, phy>>

\* nvmem_get_mac_address: an error code, or 0 and six bytes.
NvmemMacs == {<<\h02, \h00, \h00, \hC0, \hFF, \hEE>>, <<0, 0, 0, 0, 0, 0>>}
NvmemOutcomes ==
  {[ret |-> "none", nvmem_mac |-> m] : m \in NvmemMacs}
    \cup {[ret |-> e, nvmem_mac |-> <<>>] : e \in {"ENOENT", "EPROBE_DEFER"}}

\* of_get_mac_addr_nvmem up to its test of pdev.
NvmemFind(t) ==
  /\ pc[t] = "nvmem"
  /\ IF devFound
     THEN /\ refcount' = refcount + 1
          /\ consulted' = [consulted EXCEPT ![t] = Attempt(t, "nvmem", "pending")]
          /\ pc' = [pc EXCEPT ![t] = "nvmem:held"]
          /\ UNCHANGED result
     ELSE /\ consulted' = [consulted EXCEPT ![t] = Attempt(t, "nvmem", "err")]
          /\ result' = [result EXCEPT ![t] =
                          of_get_mac_addr_nvmem_ret(FALSE, "none", <<>>, TRUE)]
          /\ pc' = [pc EXCEPT ![t] = "done"]
          /\ UNCHANGED refcount
  /\ UNCHANGED <<cfgTrio, props, trioIdx, rootSerial, devFound, callers,
                 callsLeft, loc, board, rev, phy>>

\* The rest of of_get_mac_addr_nvmem: put_device on both branches.
NvmemRead(t) ==
  /\ pc[t] = "nvmem:held"
  /\ \E o \in NvmemOutcomes, mac_ok \in BOOLEAN :
       LET addr == of_get_mac_addr_nvmem_ret(TRUE, o.ret, o.nvmem_mac, mac_ok)
       IN /\ loc' = [loc EXCEPT ![t] = o]
          /\ refcount' = refcount - 1
          /\ consulted' = [consulted EXCEPT ![t] = Settle(t, addr.kind)]
          /\ result' = [result EXCEPT ![t] = addr]
          /\ pc' = [pc EXCEPT ![t] = "done"]
  /\ UNCHANGED <<cfgTrio, props, trioIdx, rootSerial, devFound, callers,
                 callsLeft, board, rev, phy>>

\* The caller takes the return value and is free to call again.
Return(t) ==
  /\ pc[t] = "done"
  /\ pc' = [pc EXCEPT ![t] = "idle"]
  /\ consulted' = [consulted EXCEPT ![t] = <<>>]
  /\ loc' = [loc EXCEPT ![t] = NoLocals]
  /\ result' = [result EXCEPT ![t] = NULL]
  /\ UNCHANGED <<cfgTrio, props, trioIdx, rootSerial, devFound, refcount,
                 callers, callsLeft, board, rev, phy>>

\* ---------------------------------------------------------- of_get_phy_mode

\* phy_modes(i) for the first interface modes of the table, in its order.
phy_modes_table ==
  << <<>>,
    <<"i", "n", "t", "e", "r", "n", "a", "l">>,
    <<"m", "i", "i">>,
    <<"g", "m", "i", "i">>,
    <<"s", "g", "m", "i", "i">>,
    <<"t", "b", "i">>,
    <<"r", "e", "v", "-", "m", "i", "i">>,
    <<"r", "m", "i", "i">>,
    <<"r", "g", "m", "i", "i">>,
    <<"r", "g", "m", "i", "i", "-", "i", "d">> >>
PHY_INTERFACE_MODE_MAX == Len(phy_modes_table)
phy_modes(i) == phy_modes_table[i + 1]

\* strcasecmp: 0 when the strings are equal up to the case of their letters.
strcasecmp(a, b) ==
  IF Len(a) = Len(b) /\ \A i \in 1..Len(a) : tolower(a[i]) = tolower(b[i])
  THEN 0 ELSE 1

\* of_property_read_string: -EINVAL when the property is absent.
of_property_read_string(pp) ==
  IF pp.present THEN [err |-> "none", str |-> pp.str]
  ELSE [err |-> "EINVAL", str |-> <<>>]

\* The for loop of of_get_phy_mode from index i on.
RECURSIVE phy_mode_scan(_, _)
phy_mode_scan(pm, i) ==
  IF i >= PHY_INTERFACE_MODE_MAX THEN [err |-> "ENODEV", mode |-> -1]
  ELSE IF strcasecmp(pm, phy_modes(i)) = 0 THEN [err |-> "none", mode |-> i]
  ELSE phy_mode_scan(pm, i + 1)

\* A mutation: "phy-connection-type" is read first.
of_get_phy_mode_conn_first(np) ==
  LET first == of_property_read_string(np.conn)
      r == IF first.err # "none" THEN of_property_read_string(np.mode) ELSE first
  IN IF r.err # "none" THEN [err |-> r.err, mode |-> -1]
     ELSE phy_mode_scan(r.str, 0)

\* of_get_phy_mode(np): np.mode is "phy-mode", np.conn "phy-connection-type".
of_get_phy_mode(np) ==
  LET first == of_property_read_string(np.mode)
      r == IF first.err # "none" THEN of_property_read_string(np.conn) ELSE first
  IN IF r.err # "none" THEN [err |-> r.err, mode |-> -1]
     ELSE phy_mode_scan(r.str, 0)

\* ----------------------------------------------------------------- inputs

ValidA == <<\h00, \h11, \h22, \h33, \h44, \h55>>
ValidB == <<\hAA, \hBB, \hCC, \hDD, \hEE, \hFF>>
PropVals ==
  {NoProp,
   Prop(<<0, 0, 0, 0, 0, 0>>),
   Prop(ValidA),
   Prop(ValidB),
   Prop(<<\h01, \h00, \h5E, \h00, \h00, \h01>>),
   Prop(<<\h00, \h11, \h22, \h33, \h44>>),
   Prop(<<\h00, \h11, \h22, \h33, \h44, \h55, \h66>>)}

IdxCells ==
  {<<0, 0, 0, 0>>, <<0, 0, 0, 1>>, <<0, 0, 0, 2>>,
   <<127, 255, 255, 255>>, <<128, 0, 0, 0>>, <<255, 255, 255, 255>>}

RECURSIVE ToDec(_)
ToDec(n) ==
  IF n < 10 THEN <<Digits[n + 1]>>
  ELSE Append(ToDec(n \div 10), Digits[(n % 10) + 1])

SerialSamples ==
  (0..SerialSpan) \cup {5}
    \cup ((TRIO_SERIAL_LIMIT - SerialSpan)..(TRIO_SERIAL_LIMIT + SerialSpan))
OddSerials ==
  {<<"-", "1">>,
   <<"a", "b", "c">>,
   <<"0", "x", "5">>,
   <<"0", "x", "3", "7", "F", "F", "E">>,
   <<"0", "X", "3", "7", "f", "f", "f">>,
   <<"0", "1", "0">>,
   <<"5", "\n">>,
   <<>>,
   <<"+", "7">>,
   <<"0", "8">>,
   <<"5", "z">>}
SerialProps ==
  {NoString} \cup {String(ToDec(n)) : n \in SerialSamples}
    \cup {String(s) : s \in OddSerials}

PhyStrings ==
  {<<"m", "i", "i">>,
   <<"M", "I", "I">>,
   <<"R", "g", "m", "i", "i">>,
   <<"r", "g", "m", "i", "i", "-", "i", "d">>,
   <<"R", "G", "M", "I", "I", "-", "I", "D">>,
   <<"s", "g", "m", "i", "i">>,
   <<"r", "e", "v", "-", "M", "I", "I">>,
   <<"b", "o", "g", "u", "s">>,
   <<>>,
   <<"r", "g", "m", "i">>,
   <<"m", "i", "i", "i">>}
PhyProps == {NoString} \cup {String(s) : s \in PhyStrings}

ByteSamples == {\h00, \h1E, \hFF}
Values48 == {<<0, 0, a, b, c, d, e, f>> : a \in {0, \h1E}, b \in ByteSamples,
             c \in ByteSamples, d \in ByteSamples, e \in ByteSamples,
             f \in ByteSamples}

Boards == {"A", "B"}
NoBoard == [serial |-> NoString, idx |-> <<0, 0, 0, 0>>, done |-> FALSE,
            val |-> <<>>, mac |-> <<>>]
NoRev == [serial |-> NoString, x |-> <<>>, r1 |-> <<>>, r2 |-> <<>>, stage |-> 0]
NoPhy == [mode |-> NoString, conn |-> NoString, done |-> FALSE,
          ret |-> [err |-> "none", mode |-> -1]]

ResolverOff ==
  /\ cfgTrio = FALSE
  /\ props = [n \in PropNames |-> NoProp]
  /\ trioIdx = NoCell
  /\ rootSerial = NoString
  /\ devFound = FALSE
  /\ refcount = 0
  /\ callers = {}
  /\ callsLeft = 0
  /\ pc = [t \in 1..NumCallers |-> "idle"]
  /\ consulted = [t \in 1..NumCallers |-> <<>>]
  /\ loc = [t \in 1..NumCallers |-> NoLocals]
  /\ result = [t \in 1..NumCallers |-> NULL]

\* ------------------------------- Spec: one caller, one call after another

Init ==
  /\ cfgTrio \in BOOLEAN
  /\ props \in [PropNames -> PropVals]
  /\ trioIdx \in IF cfgTrio
                 THEN {NoCell, Cell(<<0, 0, 0, 1>>), Cell(<<255, 255, 255, 255>>)}
                 ELSE {NoCell}
  /\ rootSerial \in IF cfgTrio THEN {NoString, String(<<"5">>)} ELSE {NoString}
  /\ devFound \in BOOLEAN
  /\ refcount = IF devFound THEN 1 ELSE 0
  /\ callers = {1}
  /\ callsLeft = MaxCalls
  /\ pc = [t \in 1..NumCallers |-> "idle"]
  /\ consulted = [t \in 1..NumCallers |-> <<>>]
  /\ loc = [t \in 1..NumCallers |-> NoLocals]
  /\ result = [t \in 1..NumCallers |-> NULL]
  /\ board = [b \in Boards |-> NoBoard]
  /\ rev = NoRev
  /\ phy = NoPhy

Next ==
  \E t \in 1..NumCallers :
    \/ Call(t)
    \/ PropertyStep(t)
    \/ TrioFind(t)
    \/ TrioRead(t)
    \/ NvmemFind(t)
    \/ NvmemRead(t)
    \/ Return(t)

Spec == Init /\ [][Next]_vars

\* ------------------------- SpecConc: repeated and concurrent resolutions

InitConc ==
  /\ cfgTrio \in BOOLEAN
  /\ props \in {[n \in PropNames |-> IF n = "mac-address" THEN v ELSE NoProp] :
                  v \in {NoProp, Prop(ValidA)}}
  /\ trioIdx \in IF cfgTrio THEN {NoCell, Cell(<<0, 0, 0, 1>>)} ELSE {NoCell}
  /\ rootSerial = String(<<"5">>)
  /\ devFound \in BOOLEAN
  /\ refcount = IF devFound THEN 1 ELSE 0
  /\ callers = 1..NumCallers
  /\ callsLeft = MaxCalls
  /\ pc = [t \in 1..NumCallers |-> "idle"]
  /\ consulted = [t \in 1..NumCallers |-> <<>>]
  /\ loc = [t \in 1..NumCallers |-> NoLocals]
  /\ result = [t \in 1..NumCallers |-> NULL]
  /\ board = [b \in Boards |-> NoBoard]
  /\ rev = NoRev
  /\ phy = NoPhy

SpecConc == InitConc /\ [][Next]_vars

\* ----------------------------------------- SpecGen: the generator on boards

GenInit ==
  /\ ResolverOff
  /\ board \in [Boards -> {[serial |-> s, idx |-> i, done |-> FALSE,
                            val |-> <<>>, mac |-> <<>>] :
                             s \in SerialProps, i \in IdxCells}]
  /\ rev = NoRev
  /\ phy = NoPhy

\* The vendor step's computation on board b: u64 val = return_trio_mac(idx)
\* and the six bytes stored from it.
TrioGenerate(b) ==
  /\ ~board[b].done
  /\ LET val == return_trio_mac(U32ToInt(board[b].idx), board[b].serial)
     IN board' = [board EXCEPT ![b] =
                    [@ EXCEPT !.done = TRUE, !.val = val,
                              !.mac = trio_mac_bytes(val)]]
  /\ UNCHANGED <<resolverVars, rev, phy>>

GenNext == \E b \in Boards : TrioGenerate(b)

SpecGen == GenInit /\ [][GenNext]_vars

\* --------------------------------------------- SpecRev: the byte reversal

RevInit ==
  /\ ResolverOff
  /\ board = [b \in Boards |-> NoBoard]
  /\ rev \in {[serial |-> s, x |-> v, r1 |-> <<>>, r2 |-> <<>>, stage |-> 0] :
                s \in {NoString, String(<<"5">>)}, v \in Values48}
  /\ phy = NoPhy

\* return_trio_mac_reversed(idx): the forward value and its reversal.
ReturnReversed(i) ==
  /\ rev.stage = 0
  /\ rev' = [rev EXCEPT !.x = return_trio_mac(U32ToInt(i), rev.serial),
                        !.r1 = return_trio_mac_reversed(U32ToInt(i), rev.serial),
                        !.stage = 1]
  /\ UNCHANGED <<resolverVars, board, phy>>

\* The reversal applied to a given forward value.
Reverse ==
  /\ rev.stage = 0
  /\ rev' = [rev EXCEPT !.r1 = trio_reverse_bytes(rev.x), !.stage = 1]
  /\ UNCHANGED <<resolverVars, board, phy>>

\* The reversal applied to the reversed value.
ReverseAgain ==
  /\ rev.stage = 1
  /\ rev' = [rev EXCEPT !.r2 = trio_reverse_bytes(rev.r1), !.stage = 2]
  /\ UNCHANGED <<resolverVars, board, phy>>

RevNext ==
  \/ \E i \in IdxCells : ReturnReversed(i)
  \/ Reverse
  \/ ReverseAgain

SpecRev == RevInit /\ [][RevNext]_vars

\* ------------------------------------------------ SpecPhy: of_get_phy_mode

PhyInit ==
  /\ ResolverOff
  /\ board = [b \in Boards |-> NoBoard]
  /\ rev = NoRev
  /\ phy \in {[mode |-> m, conn |-> c, done |-> FALSE,
               ret |-> [err |-> "none", mode |-> -1]] :
                m \in PhyProps, c \in PhyProps}

GetPhyMode ==
  /\ ~phy.done
  /\ phy' = [phy EXCEPT !.done = TRUE, !.ret = of_get_phy_mode(phy)]
  /\ UNCHANGED <<resolverVars, board, rev>>

PhyNext == GetPhyMode

SpecPhy == PhyInit /\ [][PhyNext]_vars

\* ------------------------------------------------------------- properties

\* The validity rule as the specification words it: exactly six bytes, not
\* all-zero, multicast bit clear.
ClaimValid(pp) ==
  /\ pp.present
  /\ Len(pp.value) = 6
  /\ \E i \in 1..6 : pp.value[i] # 0
  /\ pp.value[1] % 2 = 0

\* The order of the strategies as the specification lists it.
ClaimedOrder ==
  IF cfgTrio
  THEN <<"mac-address", "trio", "local-mac-address", "address",
         "nvmem-mac-address", "nvmem">>
  ELSE <<"mac-address", "local-mac-address", "address",
         "nvmem-mac-address", "nvmem">>

Last(c) == c[Len(c)]
Baseline == IF devFound THEN 1 ELSE 0
PropsAllInvalid == \A n \in PropNames : ~ClaimValid(props[n])
NoVendorAddress(t) ==
  \A i \in 1..Len(consulted[t]) :
    consulted[t][i].step = "trio" => consulted[t][i].kind # "addr"

\* C1: the strategies are consulted in the fixed order "mac-address", [the
\* vendor step when compiled in], "local-mac-address", "address",
\* "nvmem-mac-address", nvmem cell; a step is attempted only when every
\* earlier step yielded nothing; and a valid "mac-address" is returned as it
\* is, with no later step and no device lookup performed.
C1_FixedOrder ==
  \A t \in callers :
    LET c == consulted[t]
    IN /\ Len(c) <= Len(ClaimedOrder)
       /\ \A i \in 1..Len(c) : c[i].step = ClaimedOrder[i]
       /\ \A i \in 1..(Len(c) - 1) : c[i].kind = "null"
       /\ (c # <<>> /\ ClaimValid(props["mac-address"]))
            => /\ pc[t] = "done"
               /\ Len(c) = 1
               /\ result[t] = Ptr(props["mac-address"].value)
               /\ refcount = Baseline

C1_Witness ==
  \E t \in callers :
    /\ pc[t] = "done"
    /\ cfgTrio /\ devFound /\ trioIdx.present
    /\ ClaimValid(props["mac-address"])
    /\ ClaimValid(props["local-mac-address"])
    /\ props["local-mac-address"].value # props["mac-address"].value
    /\ result[t] = Ptr(props["mac-address"].value)

\* C2: no step other than the final nvmem-cell step makes the resolver return
\* an error: an error the resolver returns is the error of the final step.
C2_OnlyFinalStepFails ==
  \A t \in callers :
    (pc[t] = "done" /\ result[t].kind = "err")
      => Last(consulted[t]).step = "nvmem"

\* C3: once every resolution call has returned, the device's reference count
\* is what it was before the calls.
C3_RefsReleased ==
  (\A t \in 1..NumCallers : pc[t] \in {"idle", "done"}) => refcount = Baseline

\* C5, as claimed: when no property step and no vendor step produces an
\* address, the result is the outcome of the nvmem-cell step: NoDevice with
\* no device, else the storage error unchanged, else the retrieved bytes.
C5_Original ==
  \A t \in callers :
    (pc[t] = "done" /\ PropsAllInvalid /\ NoVendorAddress(t))
      => IF ~devFound THEN result[t] = ERR_PTR("ENODEV")
         ELSE /\ Last(consulted[t]).step = "nvmem"
              /\ IF loc[t].ret # "none"
                 THEN result[t] = ERR_PTR(loc[t].ret)
                 ELSE result[t] = Ptr(loc[t].nvmem_mac)

\* C5, amended: when no property step and no vendor step produces an
\* address, the result is NoDevice with no device; else -ENOMEM when the
\* vendor step could not allocate its buffer; else the outcome of the
\* nvmem-cell step: the storage error unchanged, or the retrieved bytes with
\* no validity check, or -ENOMEM when their copy cannot be allocated.
C5_NvmemOutcome ==
  \A t \in callers :
    (pc[t] = "done" /\ PropsAllInvalid /\ NoVendorAddress(t))
      => IF ~devFound THEN result[t] = ERR_PTR("ENODEV")
         ELSE IF Last(consulted[t]).step = "trio"
         THEN result[t] = ERR_PTR("ENOMEM")
         ELSE /\ Last(consulted[t]).step = "nvmem"
              /\ IF loc[t].ret # "none"
                 THEN result[t] = ERR_PTR(loc[t].ret)
                 ELSE result[t] \in {Ptr(loc[t].nvmem_mac), ERR_PTR("ENOMEM")}

C5_Witness ==
  \E t \in callers :
    /\ pc[t] = "done"
    /\ cfgTrio /\ devFound /\ PropsAllInvalid
    /\ Last(consulted[t]).step = "nvmem"
    /\ loc[t].ret = "none"
    /\ result[t] = ERR_PTR("ENOMEM")

\* C6: a property step yields an address exactly when its property is six
\* bytes long, not all-zero and unicast; otherwise the resolver moves on to
\* the next step; so an address returned from a property step is the
\* property's value, six bytes, non-zero and unicast.
C6_PropertyValidity ==
  \A t \in callers :
    LET c == consulted[t]
    IN /\ \A i \in 1..Len(c) :
            c[i].step \in PropNames
              => /\ c[i].kind \in {"addr", "null"}
                 /\ (c[i].kind = "addr") = ClaimValid(props[c[i].step])
                 /\ (c[i].kind = "null" /\ i = Len(c))
                      => pc[t] = ClaimedOrder[i + 1]
       /\ (pc[t] = "done" /\ Last(c).step \in PropNames)
            => /\ result[t].kind = "addr"
               /\ result[t].addr = props[Last(c).step].value
               /\ Len(result[t].addr) = 6
               /\ \E i \in 1..6 : result[t].addr[i] # 0
               /\ result[t].addr[1] % 2 = 0

C6_Witness ==
  \E t \in callers :
    /\ pc[t] = "done"
    /\ props["local-mac-address"] = Prop(<<0, 0, 0, 0, 0, 0>>)
    /\ props["address"] = Prop(<<\hAA, \hBB, \hCC, \hDD, \hEE, \hFF>>)
    /\ result[t] = Ptr(<<\hAA, \hBB, \hCC, \hDD, \hEE, \hFF>>)

\* The serial the specification says is used: the parsed value when parsing
\* succeeds and it lies in [1, 229375), else 0.
ClaimedEff(pserial) ==
  IF ~pserial.present THEN 0
  ELSE LET k == kstrtoll(pserial.str)
       IN IF k.err = "none" /\ 1 <= k.val /\ k.val < 229375 THEN k.val ELSE 0

\* base + eff * NUM_MACS_PER_DEVICE + index, base = 0x001EFBF80001.
ClaimedMac(idx, pserial) ==
  Add64(Add64(<<0, 0, \h00, \h1E, \hFB, \hF8, \h00, \h01>>,
              S64ToU64(ClaimedEff(pserial) * 2)),
        S64ToU64(idx))

DegradedSerials ==
  {<<"0">>, <<"2", "2", "9", "3", "7", "5">>, <<"-", "1">>, <<"a", "b", "c">>}

\* C4: generate(index) is base + eff * 2 + index, eff being the parsed serial
\* when it parses and lies in [1, 229375) and 0 otherwise (absent, "0",
\* "229375", "-1", non-numeric text); "1" and "229374" are used as they are;
\* generation always gives a value; the vendor step stores the low 48 bits
\* most significant byte first (serial "5", index 1: 00:1E:FB:F8:00:0C).
C4_GenerateFormula ==
  \A b \in Boards :
    board[b].done =>
      LET idx == U32ToInt(board[b].idx)
          ser == board[b].serial
          val == board[b].val
      IN /\ Len(val) = 8
         /\ val = ClaimedMac(idx, ser)
         /\ board[b].mac = SubSeq(val, 3, 8)
         /\ (ser = String(<<"5">>) /\ idx = 1)
              => board[b].mac = <<\h00, \h1E, \hFB, \hF8, \h00, \h0C>>
         /\ (ser.present /\ ser.str \in DegradedSerials)
              => val = ClaimedMac(idx, NoString)
         /\ (ser = String(<<"1">>) /\ idx = 0)
              => val = <<0, 0, \h00, \h1E, \hFB, \hF8, \h00, \h03>>
         /\ (ser = String(<<"2", "2", "9", "3", "7", "4">>) /\ idx = 0)
              => val = <<0, 0, \h00, \h1E, \hFB, \hFE, \hFF, \hFD>>

C4_Witness ==
  /\ board["A"].done
  /\ board["A"].serial = String(<<"5">>)
  /\ board["A"].idx = <<0, 0, 0, 1>>
  /\ board["A"].mac = <<\h00, \h1E, \hFB, \hF8, \h00, \h0C>>
  /\ board["B"].done
  /\ board["B"].serial = String(<<"2", "2", "9", "3", "7", "5">>)
  /\ board["B"].val = ClaimedMac(U32ToInt(board["B"].idx), NoString)

\* C8: the address the vendor step produces is structurally valid for every
\* "trio-mac-idx" cell and every serial outcome: six bytes, not all-zero,
\* first byte fixed (00) and even.
C8_GeneratedValid ==
  \A b \in Boards :
    board[b].done =>
      /\ Len(board[b].mac) = 6
      /\ \E i \in 1..6 : board[b].mac[i] # 0
      /\ board[b].mac[1] = 0
      /\ board[b].mac[1] % 2 = 0

C8_Witness ==
  /\ board["A"].done
  /\ board["A"].idx = <<255, 255, 255, 255>>
  /\ ~board["A"].serial.present
  /\ board["A"].mac = <<\h00, \h1E, \hFB, \hF8, \h00, \h00>>
  /\ board["B"].done
  /\ board["B"].idx = <<127, 255, 255, 255>>
  /\ board["B"].serial = String(<<"2", "2", "9", "3", "7", "4">>)

InRange(pserial) ==
  /\ pserial.present
  /\ kstrtoll(pserial.str).err = "none"
  /\ kstrtoll(pserial.str).val >= 1
  /\ kstrtoll(pserial.str).val < 229375

\* C9: for a fixed serial generate(1) - generate(0) = 1; and two pairs
\* (serial, index), serial in [1, 229375) and index 0 or 1, that differ in
\* serial or index get different 48-bit addresses.
C9_NoCollision ==
  \A a \in Boards, b \in Boards :
    (board[a].done /\ board[b].done) =>
      /\ (/\ board[a].serial = board[b].serial
          /\ board[a].idx = <<0, 0, 0, 0>>
          /\ board[b].idx = <<0, 0, 0, 1>>)
           => /\ board[b].val = Add64(board[a].val, S64ToU64(1))
              /\ board[b].val # board[a].val
      /\ (/\ InRange(board[a].serial) /\ InRange(board[b].serial)
          /\ board[a].idx \in {<<0, 0, 0, 0>>, <<0, 0, 0, 1>>}
          /\ board[b].idx \in {<<0, 0, 0, 0>>, <<0, 0, 0, 1>>}
          /\ \/ kstrtoll(board[a].serial.str).val # kstrtoll(board[b].serial.str).val
             \/ board[a].idx # board[b].idx)
           => board[a].mac # board[b].mac

C9_Witness ==
  /\ board["A"].done /\ board["B"].done
  /\ board["A"].serial = String(<<"1">>)
  /\ board["A"].idx = <<0, 0, 0, 1>>
  /\ board["B"].serial = String(<<"2">>)
  /\ board["B"].idx = <<0, 0, 0, 0>>
  /\ board["A"].mac # board["B"].mac

Palindromic(x) == x[3] = x[8] /\ x[4] = x[7] /\ x[5] = x[6]

\* C10: the reversed value is the six low bytes of the forward value in the
\* opposite order with the upper 16 bits zero; reversing twice gives back
\* every 48-bit value; and the reversal changes every value whose six bytes
\* are not a palindrome.
C10_ReverseInvolution ==
  LET x == rev.x
  IN /\ rev.stage >= 1
          => /\ rev.r1 = <<0, 0, x[8], x[7], x[6], x[5], x[4], x[3]>>
             /\ ~Palindromic(x) => rev.r1 # x
     /\ rev.stage = 2 => rev.r2 = x

C10_Witness ==
  /\ rev.stage = 2
  /\ rev.x = <<0, 0, \h00, \h1E, \hFB, \hF8, \h00, \h0C>>
  /\ rev.r1 = <<0, 0, \h0C, \h00, \hF8, \hFB, \h1E, \h00>>
  /\ rev.r2 = rev.x

\* The result the specification gives for the string obtained.
RECURSIVE LowerString(_)
LowerString(s) ==
  IF s = <<>> THEN <<>> ELSE <<tolower(Head(s))>> \o LowerString(Tail(s))

ClaimedPhyResult(str) ==
  LET M == {i \in 0..(Len(phy_modes_table) - 1) :
              LowerString(phy_modes_table[i + 1]) = LowerString(str)}
  IN IF M = {} THEN [err |-> "ENODEV", mode |-> -1]
     ELSE [err |-> "none", mode |-> CHOOSE i \in M : \A j \in M : i <= j]

\* C7: "phy-mode" is used when present and "phy-connection-type" only when it
\* is absent; with neither the result is NotFound (-EINVAL); else it is the
\* index of the first table entry equal to the string up to case, or Invalid
\* (-ENODEV) when none is; so a string resolves alike from either property.
C7_PhyMode ==
  phy.done =>
    IF phy.mode.present THEN phy.ret = ClaimedPhyResult(phy.mode.str)
    ELSE IF phy.conn.present THEN phy.ret = ClaimedPhyResult(phy.conn.str)
    ELSE phy.ret = [err |-> "EINVAL", mode |-> -1]

C7_Witness ==
  /\ phy.done
  /\ ~phy.mode.present
  /\ phy.conn = String(<<"R", "G", "M", "I", "I", "-", "I", "D">>)
  /\ phy.ret = [err |-> "none", mode |-> 9]

====
